---- MODULE Spec2Model ----
(***************************************************************************)
(* Model of package asynctask (src/asynctask.go): an AsyncTask batch, its  *)
(* registered Runners, StartAndWait's admission loop with the optional     *)
(* semaphore pool, and per runner the three goroutines of Runner.do: the   *)
(* wrapper (the select of do), the function goroutine (r.f + recovery) and *)
(* the writer goroutine of safeResultChan.write.                           *)
(*                                                                         *)
(* Every action is one step of one goroutine: a statement that reads or    *)
(* writes shared state (b.err, b.mapResult, the context, a channel, a       *)
(* WaitGroup, b.runnerPoolSize), together with the local statements around *)
(* it.  Sections guarded by b.mutex are single steps.  A blocked channel   *)
(* operation is a disabled action; a send and a receive that meet on a     *)
(* channel without buffer are one step of both goroutines.                 *)
(***************************************************************************)
EXTENDS Integers, Sequences, FiniteSets

\* ------------------------------------------------------------------ bounds
\* units of a batch (the batches of SpecDup have this many)
MaxRunners == 3
\* runners registered one by one with Register in Spec
MaxRegister == 2
MaxKeys == 2
MaxPool == 1
\* calls of write() and of read() on the safeResultChan used on its own
MaxWriters == 2
MaxReads == 2

Units == 1..MaxRunners
Keys == 1..MaxKeys
Writers == 1..MaxWriters
PoolSizes == (0 - 1)..MaxPool
\* r.timeout: 0 is "no SetTimeout", 1 stands for any positive duration
Timeouts == {0, 1}

VARIABLES
    runners,          \* b.runners: sequence of [id, multiple, timeout]
    cancelOnError,    \* b.cancelOnError
    runnerPoolSize,   \* b.runnerPoolSize
    parentDone,       \* the caller's context passed to NewAsyncTask is done
    cancelled,        \* b.cancel() has been called
    err,              \* b.err
    mapResult,        \* b.mapResult
    pc,               \* position of the caller: "config", then inside StartAndWait
    idx,              \* index of the runner the loop of StartAndWait is at
    mapID,            \* StartAndWait's local mapID (the set of keys mapped to true)
    semCap,           \* capacity of StartAndWait's local sem
    sem,              \* number of elements buffered in sem
    wg,               \* counter of b.wg
    ret,              \* value returned by StartAndWait
    wr,               \* per runner: position of the goroutine running runner.do():
                      \* "idle" (not launched), "started", "select", then "recv" or
                      \* "cancel" and "seterr", "closing", "closelock", "closewait",
                      \* "closeres", "release", "wgdone", "done"
    exit,             \* per runner: the case of do's select that was taken
    fnAtExit,         \* per runner: where the goroutine calling r.f was at that moment
    deferSem,         \* per runner: the goroutine has deferred func() { <-sem }
    fn,               \* per runner: position of the goroutine calling r.f: "none",
                      \* "running", then "returned", or "recovering" and "panicked"
    fres,             \* per runner: the result{resp, err} r.f returned
    wrt,              \* per runner: position of the goroutine of safeResultChan.write:
                      \* "none", "spawned", "added", then "sending", "done"
    chClose,          \* per runner: src.chClose is closed
    chResult,         \* per runner: src.chResult is closed
    srcWriters,       \* a safeResultChan used on its own: per write() call, the position
                      \* of its goroutine and whether close() had been called before
    srcClose,         \* position of the call of close() on it
    srcChClose,       \* its chClose is closed
    srcChResult,      \* its chResult is closed
    srcReads          \* the values its read() channel has yielded, in order

cfgVars == <<runners, cancelOnError, runnerPoolSize>>
ctxVars == <<parentDone, cancelled>>
mainVars == <<pc, idx, mapID, semCap, sem, wg, ret>>
runVars == <<wr, exit, fnAtExit, deferSem, fn, fres, wrt, chClose, chResult>>
chanVars == <<srcWriters, srcClose, srcChClose, srcChResult, srcReads>>
vars == <<cfgVars, ctxVars, err, mapResult, mainVars, runVars, chanVars>>

\* ------------------------------------------------------------------ values
\* interface{} values: nil, a scalar returned by unit u's function, or a []interface{}
NilVal == [t |-> "nil", v |-> <<>>]
Scalar(u) == [t |-> "scalar", v |-> <<u>>]
Slice(s) == [t |-> "slice", v |-> s]

\* error values; unit is the runner whose goroutine built it, id the key in its text
NoErr == [kind |-> "nil", unit |-> 0, id |-> 0]
FuncErr(u) == [kind |-> "func", unit |-> u, id |-> 0]
PanicErr(u) == [kind |-> "panic", unit |-> u, id |-> 0]
ShapeErr(u) == [kind |-> "shape", unit |-> u, id |-> 0]
TimeLimitErr(u, id) == [kind |-> "timeout", unit |-> u, id |-> id]
DupErr(u, id) == [kind |-> "dup", unit |-> u, id |-> id]

\* the result{resp, err} values a user function can return
Outcomes(u) == { [resp |-> r, err |-> e] : r \in {NilVal, Scalar(u)}, e \in {NoErr, FuncErr(u)} }
NoResult == [resp |-> NilVal, err |-> NoErr]

\* ctx.Done() of b.ctx, derived with context.WithCancel from the caller's context
ctxDone == parentDone \/ cancelled

NumRunners == Len(runners)
Registered == 1..NumRunners

\* ------------------------------------------------------------------ Init
\* the state NewAsyncTask leaves besides the three configuration fields
InitBatch ==
    /\ parentDone = FALSE
    /\ cancelled = FALSE
    /\ err = NoErr
    /\ mapResult = [k \in Keys |-> NilVal]
    /\ pc = "config"
    /\ idx = 0
    /\ mapID = {}
    /\ semCap = 0
    /\ sem = 0
    /\ wg = 0
    /\ ret = NoErr
    /\ wr = [u \in Units |-> "idle"]
    /\ exit = [u \in Units |-> "none"]
    /\ fnAtExit = [u \in Units |-> "none"]
    /\ deferSem = [u \in Units |-> FALSE]
    /\ fn = [u \in Units |-> "none"]
    /\ fres = [u \in Units |-> NoResult]
    /\ wrt = [u \in Units |-> "none"]
    /\ chClose = [u \in Units |-> FALSE]
    /\ chResult = [u \in Units |-> FALSE]

\* newSafeResultChan(): both channels open, no writer, close() not called
InitChan ==
    /\ srcWriters = [w \in Writers |-> [pos |-> "none", late |-> FALSE]]
    /\ srcClose = "idle"
    /\ srcChClose = FALSE
    /\ srcChResult = FALSE
    /\ srcReads = <<>>

\* NewAsyncTask(ctx)
Init ==
    /\ runners = <<>>
    /\ cancelOnError = TRUE
    /\ runnerPoolSize = 0
    /\ InitBatch
    /\ InitChan

\* ------------------------------------------------------------------ builder calls
\* AsyncTask.SetRunnerPoolSize(size), before StartAndWait
SetRunnerPoolSize(size) ==
    /\ pc = "config"
    /\ runnerPoolSize' = size
    /\ UNCHANGED <<runners, cancelOnError, ctxVars, err, mapResult, mainVars, runVars, chanVars>>

\* AsyncTask.CancelOnError(flag), before StartAndWait
CancelOnError(flag) ==
    /\ pc = "config"
    /\ cancelOnError' = flag
    /\ UNCHANGED <<runners, runnerPoolSize, ctxVars, err, mapResult, mainVars, runVars, chanVars>>

\* NewRunner().SetFunc(f)[.SetMultiple()][.SetTimeout(x)].Register(id): the runner is
\* appended to b.runners and nothing is started.  Keys are taken in order of first use.
Register(id, multiple, timeout) ==
    /\ pc = "config"
    /\ NumRunners < MaxRegister
    /\ \A k \in Keys : k < id => \E u \in Registered : runners[u].id = k
    /\ runners' = Append(runners, [id |-> id, multiple |-> multiple, timeout |-> timeout])
    /\ UNCHANGED <<cancelOnError, runnerPoolSize, ctxVars, err, mapResult, mainVars, runVars, chanVars>>

\* the caller's context (the parent of b.ctx) is cancelled from outside the batch
ParentCancel ==
    /\ pc \in {"config", "loop", "acquire", "wait"}
    /\ ~parentDone
    /\ parentDone' = TRUE
    /\ UNCHANGED <<cfgVars, cancelled, err, mapResult, mainVars, runVars, chanVars>>

\* ------------------------------------------------------------------ AsyncTask
\* cancelContext with the flag ignored
cancelContextAlways == TRUE

\* cancelContext: the value of "cancelled" after the call
cancelContext == IF cancelOnError THEN TRUE ELSE cancelled

\* the position of StartAndWait after the loop body for runner i is done
AfterRunner(i) == IF i < NumRunners THEN "loop" ELSE "wait"

\* the loop launching the runners from the last registered to the first
LaunchReversed(i) ==
    /\ wg' = wg + 1
    /\ wr' = [wr EXCEPT ![NumRunners + 1 - i] = "started"]
    /\ idx' = i + 1
    /\ pc' = AfterRunner(i)

\* b.wg.Add(1); go func(runner) {...}(runner): the goroutine exists and has not run yet
Launch(i) ==
    /\ wg' = wg + 1
    /\ wr' = [wr EXCEPT ![i] = "started"]
    /\ idx' = i + 1
    /\ pc' = AfterRunner(i)

\* StartAndWait up to the loop: sem := make(chan int, b.runnerPoolSize) panics for a
\* negative size
Start ==
    /\ pc = "config"
    /\ IF runnerPoolSize < 0
          THEN /\ pc' = "crashed"
               /\ UNCHANGED <<idx, semCap>>
          ELSE /\ pc' = AfterRunner(0)
               /\ idx' = 1
               /\ semCap' = runnerPoolSize
    /\ UNCHANGED <<cfgVars, ctxVars, err, mapResult, mapID, sem, wg, ret, runVars, chanVars>>

\* the duplicate test looking at the key only when the runner is multiple
IsDuplicateInverted(i) == runners[i].id \in mapID /\ runners[i].multiple

\* the duplicate test of the loop body
IsDuplicate(i) == runners[i].id \in mapID /\ ~runners[i].multiple

\* one iteration of the loop of StartAndWait, up to the point where it blocks on sem <- 1
Loop ==
    /\ pc = "loop"
    /\ LET i == idx
           r == runners[i] IN
       IF IsDuplicate(i)
          THEN /\ cancelled' = cancelContext
               /\ ret' = DupErr(i, r.id)
               /\ pc' = "returned"
               /\ UNCHANGED <<idx, mapID, sem, wg, wr>>
          ELSE /\ mapID' = mapID \cup {r.id}
               /\ IF runnerPoolSize > 0 /\ ctxDone
                     THEN /\ pc' = "wait"
                          /\ UNCHANGED <<idx, sem, wg, wr>>
                     ELSE IF runnerPoolSize > 0 /\ sem >= semCap
                             THEN /\ pc' = "acquire"
                                  /\ UNCHANGED <<idx, sem, wg, wr>>
                             ELSE /\ sem' = IF runnerPoolSize > 0 THEN sem + 1 ELSE sem
                                  /\ Launch(i)
               /\ UNCHANGED <<cancelled, ret>>
    /\ UNCHANGED <<cfgVars, parentDone, err, mapResult, semCap, exit, fnAtExit, deferSem, fn, fres, wrt, chClose, chResult, chanVars>>

\* sem <- 1 completing although the buffer of sem is full
AcquireNoWait ==
    /\ pc = "acquire"
    /\ sem' = sem + 1
    /\ Launch(idx)
    /\ UNCHANGED <<cfgVars, ctxVars, err, mapResult, mapID, semCap, ret, exit, fnAtExit, deferSem, fn, fres, wrt, chClose, chResult, chanVars>>

\* sem <- 1 of the default case completes once the buffer of sem has room
Acquire ==
    /\ pc = "acquire"
    /\ sem < semCap
    /\ sem' = sem + 1
    /\ Launch(idx)
    /\ UNCHANGED <<cfgVars, ctxVars, err, mapResult, mapID, semCap, ret, exit, fnAtExit, deferSem, fn, fres, wrt, chClose, chResult, chanVars>>

\* sem <- 1 on a sem without buffer (made with size 0) completes only together with
\* the deferred <-sem of a runner goroutine u; StartAndWait then launches its runner
AcquireRendezvous(u) ==
    /\ pc = "acquire"
    /\ semCap = 0
    /\ wr[u] = "release"
    /\ wg' = wg + 1
    /\ wr' = [wr EXCEPT ![u] = "wgdone", ![idx] = "started"]
    /\ idx' = idx + 1
    /\ pc' = AfterRunner(idx)
    /\ UNCHANGED <<cfgVars, ctxVars, err, mapResult, mapID, semCap, sem, ret, exit, fnAtExit, deferSem, fn, fres, wrt, chClose, chResult, chanVars>>

\* return b.err without b.wg.Wait()
WaitNoBlock ==
    /\ pc = "wait"
    /\ ret' = err
    /\ pc' = "returned"
    /\ UNCHANGED <<cfgVars, ctxVars, err, mapResult, idx, mapID, semCap, sem, wg, runVars, chanVars>>

\* b.wg.Wait(); return b.err
Wait ==
    /\ pc = "wait"
    /\ wg = 0
    /\ ret' = err
    /\ pc' = "returned"
    /\ UNCHANGED <<cfgVars, ctxVars, err, mapResult, idx, mapID, semCap, sem, wg, runVars, chanVars>>

\* GetResult(id)
GetResult(id) == mapResult[id]

\* the goroutine of runner u starts to run: defer b.wg.Done(); it reads
\* b.runnerPoolSize and defers func() { <-sem }() when the value is positive; then
\* runner.do() up to its select: newSafeResultChan, runnerCtx, go func() { r.f(...) }
RunnerGo(u) ==
    /\ wr[u] = "started"
    /\ deferSem' = [deferSem EXCEPT ![u] = (runnerPoolSize > 0)]
    /\ fn' = [fn EXCEPT ![u] = "running"]
    /\ wr' = [wr EXCEPT ![u] = "select"]
    /\ UNCHANGED <<cfgVars, ctxVars, err, mapResult, mainVars, exit, fnAtExit, fres, wrt, chClose, chResult, chanVars>>

\* runner.do() has returned; the deferred func() { <-sem }() receives an element
\* buffered in sem
Release(u) ==
    /\ wr[u] = "release"
    /\ sem > 0
    /\ sem' = sem - 1
    /\ wr' = [wr EXCEPT ![u] = "wgdone"]
    /\ UNCHANGED <<cfgVars, ctxVars, err, mapResult, pc, idx, mapID, semCap, wg, ret, exit, fnAtExit, deferSem, fn, fres, wrt, chClose, chResult, chanVars>>

\* the deferred b.wg.Done(): the goroutine of runner u is finished
WgDone(u) ==
    /\ wr[u] = "wgdone"
    /\ wg' = wg - 1
    /\ wr' = [wr EXCEPT ![u] = "done"]
    /\ UNCHANGED <<cfgVars, ctxVars, err, mapResult, pc, idx, mapID, semCap, sem, ret, exit, fnAtExit, deferSem, fn, fres, wrt, chClose, chResult, chanVars>>

\* ------------------------------------------------------------------ Runner
\* processResp storing a fresh one-element slice instead of appending
StoredOverwritingSlice(m, multiple, resp) ==
    IF resp = NilVal THEN m
    ELSE IF ~multiple THEN resp
    ELSE IF m.t \in {"nil", "slice"} THEN Slice(<<resp.v[1]>>)
    ELSE m

\* processResp turning a stored scalar into a slice instead of refusing the write
StoredCoercingScalar(m, multiple, resp) ==
    IF resp = NilVal THEN m
    ELSE IF ~multiple THEN resp
    ELSE IF m.t = "nil" THEN Slice(<<resp.v[1]>>)
    ELSE IF m.t = "slice" THEN Slice(Append(m.v, resp.v[1]))
    ELSE Slice(<<m.v[1], resp.v[1]>>)

\* processResp, the value stored under the key: m is the value found there.  A nil
\* resp returns before anything is stored; with r.multiple a nil entry becomes an
\* empty slice, a non-slice entry returns without storing, else resp is appended.
StoredByProcessResp(m, multiple, resp) ==
    IF resp = NilVal THEN m
    ELSE IF ~multiple THEN resp
    ELSE IF m.t = "nil" THEN Slice(<<resp.v[1]>>)
    ELSE IF m.t = "slice" THEN Slice(Append(m.v, resp.v[1]))
    ELSE m

\* processResp, the value of b.err after the call: set when the type assertion
\* r.b.mapResult[id].([]interface{}) fails
ErrAfterProcessResp(e, u, m, multiple, resp) ==
    IF resp # NilVal /\ multiple /\ m.t = "scalar" THEN ShapeErr(u) ELSE e

\* the error do hands to processErr: res.err in the result case, the time-limit
\* error in the runnerCtx case
ErrOfExit(u) ==
    IF exit[u] = "result" THEN fres[u].err ELSE TimeLimitErr(u, runners[u].id)

\* Runner.processResp(id, res.resp) after the receive, under b.mutex; then do returns
processResp(u) ==
    /\ wr[u] = "recv"
    /\ LET r == runners[u]
           resp == fres[u].resp IN
       /\ mapResult' = [mapResult EXCEPT ![r.id] = StoredByProcessResp(mapResult[r.id], r.multiple, resp)]
       /\ err' = ErrAfterProcessResp(err, u, mapResult[r.id], r.multiple, resp)
    /\ wr' = [wr EXCEPT ![u] = "closing"]
    /\ UNCHANGED <<cfgVars, ctxVars, mainVars, exit, fnAtExit, deferSem, fn, fres, wrt, chClose, chResult, chanVars>>

\* Runner.processErr(err), first statement: r.b.cancelContext(), b.err not yet written
processErrCancel(u) ==
    /\ wr[u] = "cancel"
    /\ cancelled' = cancelContext
    /\ wr' = [wr EXCEPT ![u] = "seterr"]
    /\ UNCHANGED <<cfgVars, parentDone, err, mapResult, mainVars, exit, fnAtExit, deferSem, fn, fres, wrt, chClose, chResult, chanVars>>

\* Runner.processErr(err), the rest: r.b.err = err under b.mutex; then do returns
processErrSet(u) ==
    /\ wr[u] = "seterr"
    /\ err' = ErrOfExit(u)
    /\ wr' = [wr EXCEPT ![u] = "closing"]
    /\ UNCHANGED <<cfgVars, ctxVars, mapResult, mainVars, exit, fnAtExit, deferSem, fn, fres, wrt, chClose, chResult, chanVars>>

\* the result case of do going on to processResp without testing res.err
RecvResultIgnoringErr(u) ==
    /\ wr[u] = "select"
    /\ wrt[u] = "sending"
    /\ wrt' = [wrt EXCEPT ![u] = "done"]
    /\ wr' = [wr EXCEPT ![u] = "recv"]
    /\ exit' = [exit EXCEPT ![u] = "result"]
    /\ fnAtExit' = [fnAtExit EXCEPT ![u] = fn[u]]
    /\ UNCHANGED <<cfgVars, ctxVars, err, mapResult, mainVars, deferSem, fn, fres, chClose, chResult, chanVars>>

\* do, case res := <-ch.read(): the writer goroutine is blocked in src.chResult <- data;
\* the receive completes its send (the writer then returns and calls src.wg.Done).
\* res.err decides between processErr and processResp, which come as later steps.
RecvResult(u) ==
    /\ wr[u] = "select"
    /\ wrt[u] = "sending"
    /\ wrt' = [wrt EXCEPT ![u] = "done"]
    /\ wr' = [wr EXCEPT ![u] = IF fres[u].err # NoErr THEN "cancel" ELSE "recv"]
    /\ exit' = [exit EXCEPT ![u] = "result"]
    /\ fnAtExit' = [fnAtExit EXCEPT ![u] = fn[u]]
    /\ UNCHANGED <<cfgVars, ctxVars, err, mapResult, mainVars, deferSem, fn, fres, chClose, chResult, chanVars>>

\* do, case <-r.b.ctx.Done(): do returns
CtxDone(u) ==
    /\ wr[u] = "select"
    /\ ctxDone
    /\ wr' = [wr EXCEPT ![u] = "closing"]
    /\ exit' = [exit EXCEPT ![u] = "ctx"]
    /\ fnAtExit' = [fnAtExit EXCEPT ![u] = fn[u]]
    /\ UNCHANGED <<cfgVars, ctxVars, err, mapResult, mainVars, deferSem, fn, fres, wrt, chClose, chResult, chanVars>>

\* do, case <-runnerCtx.Done(): only with int64(r.timeout) > 0 is runnerCtx a
\* context.WithTimeout(r.b.ctx, r.timeout), else it is context.Background().  It is
\* done when the time limit has elapsed ("timeout") ...
Timeout(u) ==
    /\ wr[u] = "select"
    /\ runners[u].timeout > 0
    /\ wr' = [wr EXCEPT ![u] = "cancel"]
    /\ exit' = [exit EXCEPT ![u] = "timeout"]
    /\ fnAtExit' = [fnAtExit EXCEPT ![u] = fn[u]]
    /\ UNCHANGED <<cfgVars, ctxVars, err, mapResult, mainVars, deferSem, fn, fres, wrt, chClose, chResult, chanVars>>

\* ... and also, before the time limit, as soon as its parent r.b.ctx is done ("ctxchild")
TimeoutByCtx(u) ==
    /\ wr[u] = "select"
    /\ runners[u].timeout > 0
    /\ ctxDone
    /\ wr' = [wr EXCEPT ![u] = "cancel"]
    /\ exit' = [exit EXCEPT ![u] = "ctxchild"]
    /\ fnAtExit' = [fnAtExit EXCEPT ![u] = fn[u]]
    /\ UNCHANGED <<cfgVars, ctxVars, err, mapResult, mainVars, deferSem, fn, fres, wrt, chClose, chResult, chanVars>>

\* the goroutine of do: r.f returns out; select { case <-ch.read(): default: ch.write() }.
\* The receive is ready only when src.chResult is closed; else write starts its goroutine.
FuncReturn(u, out) ==
    /\ fn[u] = "running"
    /\ fn' = [fn EXCEPT ![u] = "returned"]
    /\ fres' = [fres EXCEPT ![u] = out]
    /\ wrt' = [wrt EXCEPT ![u] = IF chResult[u] THEN "none" ELSE "spawned"]
    /\ UNCHANGED <<cfgVars, ctxVars, err, mapResult, mainVars, wr, exit, fnAtExit, deferSem, chClose, chResult, chanVars>>

\* r.f panics; the deferred Runner.recovery sets b.err under b.mutex
FuncPanic(u) ==
    /\ fn[u] = "running"
    /\ fn' = [fn EXCEPT ![u] = "recovering"]
    /\ err' = PanicErr(u)
    /\ UNCHANGED <<cfgVars, ctxVars, mapResult, mainVars, wr, exit, fnAtExit, deferSem, fres, wrt, chClose, chResult, chanVars>>

\* Runner.recovery, last statement, after the mutex is released: r.b.cancelContext()
RecoveryCancel(u) ==
    /\ fn[u] = "recovering"
    /\ fn' = [fn EXCEPT ![u] = "panicked"]
    /\ cancelled' = cancelContext
    /\ UNCHANGED <<cfgVars, parentDone, err, mapResult, mainVars, wr, exit, fnAtExit, deferSem, fres, wrt, chClose, chResult, chanVars>>

\* ------------------------------------------------------------------ safeResultChan
\* the goroutine of write(): src.mutex.Lock(); src.wg.Add(1); src.mutex.Unlock().
\* close() holds src.mutex from its Lock to its Unlock.
WriteAdd(u) ==
    /\ wrt[u] = "spawned"
    /\ wr[u] # "closewait"
    /\ wrt' = [wrt EXCEPT ![u] = "added"]
    /\ UNCHANGED <<cfgVars, ctxVars, err, mapResult, mainVars, wr, exit, fnAtExit, deferSem, fn, fres, chClose, chResult, chanVars>>

\* the goroutine of write(): select { case <-src.chClose: return (and the deferred
\* src.wg.Done()); default: src.chResult <- data }: with default it is at the send
WriteSelect(u) ==
    /\ wrt[u] = "added"
    /\ wrt' = [wrt EXCEPT ![u] = IF chClose[u] THEN "done" ELSE "sending"]
    /\ UNCHANGED <<cfgVars, ctxVars, err, mapResult, mainVars, wr, exit, fnAtExit, deferSem, fn, fres, chClose, chResult, chanVars>>

\* close(), first statement (deferred by do): close(src.chClose)
CloseChClose(u) ==
    /\ wr[u] = "closing"
    /\ chClose' = [chClose EXCEPT ![u] = TRUE]
    /\ wr' = [wr EXCEPT ![u] = "closelock"]
    /\ UNCHANGED <<cfgVars, ctxVars, err, mapResult, mainVars, exit, fnAtExit, deferSem, fn, fres, wrt, chResult, chanVars>>

\* close(): src.mutex.Lock() (the critical section of the writer is one step, so the
\* mutex is free)
CloseLock(u) ==
    /\ wr[u] = "closelock"
    /\ wr' = [wr EXCEPT ![u] = "closewait"]
    /\ UNCHANGED <<cfgVars, ctxVars, err, mapResult, mainVars, exit, fnAtExit, deferSem, fn, fres, wrt, chClose, chResult, chanVars>>

\* the counter of src.wg is zero: no writer is between src.wg.Add(1) and src.wg.Done()
WritersDone(u) == wrt[u] \notin {"added", "sending"}

\* close(): src.wg.Wait() returns; src.mutex.Unlock()
CloseWait(u) ==
    /\ wr[u] = "closewait"
    /\ WritersDone(u)
    /\ wr' = [wr EXCEPT ![u] = "closeres"]
    /\ UNCHANGED <<cfgVars, ctxVars, err, mapResult, mainVars, exit, fnAtExit, deferSem, fn, fres, wrt, chClose, chResult, chanVars>>

\* close(), last statement: close(src.chResult); do has returned, and the goroutine
\* of the runner goes on to its deferred calls
CloseChResult(u) ==
    /\ wr[u] = "closeres"
    /\ chResult' = [chResult EXCEPT ![u] = TRUE]
    /\ wr' = [wr EXCEPT ![u] = IF deferSem[u] THEN "release" ELSE "wgdone"]
    /\ UNCHANGED <<cfgVars, ctxVars, err, mapResult, mainVars, exit, fnAtExit, deferSem, fn, fres, wrt, chClose, chanVars>>

\* ------------------------------------------------------------------ specification
\* the builder calls, the runners registered without SetTimeout, then StartAndWait;
\* the caller's context may be cancelled at any moment
Next ==
    \/ \E size \in PoolSizes : SetRunnerPoolSize(size)
    \/ \E flag \in BOOLEAN : CancelOnError(flag)
    \/ \E id \in Keys, multiple \in BOOLEAN : Register(id, multiple, 0)
    \/ ParentCancel
    \/ Start
    \/ Loop
    \/ Acquire
    \/ Wait
    \/ \E u \in Registered : RunnerGo(u)
    \/ \E u \in Registered : RecvResult(u)
    \/ \E u \in Registered : processResp(u)
    \/ \E u \in Registered : processErrCancel(u)
    \/ \E u \in Registered : processErrSet(u)
    \/ \E u \in Registered : CtxDone(u)
    \/ \E u \in Registered : CloseChClose(u)
    \/ \E u \in Registered : CloseLock(u)
    \/ \E u \in Registered : CloseWait(u)
    \/ \E u \in Registered : CloseChResult(u)
    \/ \E u \in Registered : Release(u)
    \/ \E u \in Registered : WgDone(u)
    \/ \E u \in Registered : \E out \in Outcomes(u) : FuncReturn(u, out)
    \/ \E u \in Registered : FuncPanic(u)
    \/ \E u \in Registered : RecoveryCancel(u)
    \/ \E u \in Registered : WriteAdd(u)
    \/ \E u \in Registered : WriteSelect(u)

Spec == Init /\ [][Next]_vars

\* ------------------------------------------------------------------ batches with time limits
\* the batches of one to MaxRegister runners, none multiple, each with or without
\* SetTimeout, keys taken in order of first use
TimedBatches ==
    UNION {{b \in [1..n -> [id : Keys, multiple : {FALSE}, timeout : Timeouts]] :
               \A j \in 1..n : \A k \in Keys : k < b[j].id => \E i \in 1..(j - 1) : b[i].id = k} :
           n \in 1..MaxRegister}

\* the state after NewAsyncTask, CancelOnError, SetRunnerPoolSize and the Register
\* calls of such a batch
InitTimeout ==
    /\ runners \in TimedBatches
    /\ cancelOnError \in BOOLEAN
    /\ runnerPoolSize \in 0..MaxPool
    /\ InitBatch
    /\ InitChan

\* StartAndWait on such a batch, the caller's context never cancelled
NextTimeout ==
    \/ Start
    \/ Loop
    \/ Acquire
    \/ Wait
    \/ \E u \in Registered : RunnerGo(u)
    \/ \E u \in Registered : RecvResult(u)
    \/ \E u \in Registered : processResp(u)
    \/ \E u \in Registered : processErrCancel(u)
    \/ \E u \in Registered : processErrSet(u)
    \/ \E u \in Registered : CtxDone(u)
    \/ \E u \in Registered : CloseChClose(u)
    \/ \E u \in Registered : CloseLock(u)
    \/ \E u \in Registered : CloseWait(u)
    \/ \E u \in Registered : CloseChResult(u)
    \/ \E u \in Registered : Release(u)
    \/ \E u \in Registered : WgDone(u)
    \/ \E u \in Registered : \E out \in Outcomes(u) : FuncReturn(u, out)
    \/ \E u \in Registered : FuncPanic(u)
    \/ \E u \in Registered : RecoveryCancel(u)
    \/ \E u \in Registered : WriteAdd(u)
    \/ \E u \in Registered : WriteSelect(u)
    \/ \E u \in Registered : Timeout(u)
    \/ \E u \in Registered : TimeoutByCtx(u)

SpecTimeout == InitTimeout /\ [][NextTimeout]_vars

\* ------------------------------------------------------------------ batches with a repeated key
\* b[j] is not multiple and an earlier element of b has its key
DupIn(b, j) == ~b[j].multiple /\ \E i \in 1..(j - 1) : b[i].id = b[j].id

\* the batches of MaxRunners runners without timeout, keys taken in order of first
\* use, in which some runner repeats an earlier key without SetMultiple()
DupBatches ==
    {b \in [1..MaxRunners -> [id : Keys, multiple : BOOLEAN, timeout : {0}]] :
        /\ \A j \in 1..MaxRunners : \A k \in Keys : k < b[j].id => \E i \in 1..(j - 1) : b[i].id = k
        /\ \E j \in 1..MaxRunners : DupIn(b, j)}

\* the state after NewAsyncTask, CancelOnError, SetRunnerPoolSize and the Register
\* calls of such a batch
InitDup ==
    /\ runners \in DupBatches
    /\ cancelOnError \in BOOLEAN
    /\ runnerPoolSize \in 0..MaxPool
    /\ InitBatch
    /\ InitChan

\* StartAndWait on a batch without timeouts, the caller's context never cancelled
NextDup ==
    \/ Start
    \/ Loop
    \/ Acquire
    \/ Wait
    \/ \E u \in Registered : RunnerGo(u)
    \/ \E u \in Registered : RecvResult(u)
    \/ \E u \in Registered : processResp(u)
    \/ \E u \in Registered : processErrCancel(u)
    \/ \E u \in Registered : processErrSet(u)
    \/ \E u \in Registered : CtxDone(u)
    \/ \E u \in Registered : CloseChClose(u)
    \/ \E u \in Registered : CloseLock(u)
    \/ \E u \in Registered : CloseWait(u)
    \/ \E u \in Registered : CloseChResult(u)
    \/ \E u \in Registered : Release(u)
    \/ \E u \in Registered : WgDone(u)
    \/ \E u \in Registered : \E out \in Outcomes(u) : FuncReturn(u, out)
    \/ \E u \in Registered : FuncPanic(u)
    \/ \E u \in Registered : RecoveryCancel(u)
    \/ \E u \in Registered : WriteAdd(u)
    \/ \E u \in Registered : WriteSelect(u)

SpecDup == InitDup /\ [][NextDup]_vars

\* ------------------------------------------------------------------ pool size changed during the run
\* the batches of MaxRegister runners without timeout, keys taken in order of first use
PlainBatches ==
    {b \in [1..MaxRegister -> [id : Keys, multiple : BOOLEAN, timeout : {0}]] :
        \A j \in 1..MaxRegister : \A k \in Keys : k < b[j].id => \E i \in 1..(j - 1) : b[i].id = k}

\* the state after NewAsyncTask, CancelOnError, SetRunnerPoolSize and the Register
\* calls of such a batch
InitResize ==
    /\ runners \in PlainBatches
    /\ cancelOnError \in BOOLEAN
    /\ runnerPoolSize \in 0..MaxPool
    /\ InitBatch
    /\ InitChan

\* AsyncTask.SetRunnerPoolSize(size) called by another goroutine while StartAndWait
\* runs: b.runnerPoolSize is assigned without synchronisation; StartAndWait reads the
\* field again in every iteration and every launched goroutine reads it when it
\* starts to run, each read seeing the old or the new value according to where this
\* step falls
SetRunnerPoolSizeMidRun(size) ==
    /\ pc \in {"loop", "acquire", "wait"}
    /\ runnerPoolSize # size
    /\ runnerPoolSize' = size
    /\ UNCHANGED <<runners, cancelOnError, ctxVars, err, mapResult, mainVars, runVars, chanVars>>

NextResize ==
    \/ \E size \in 0..MaxPool : SetRunnerPoolSizeMidRun(size)
    \/ Start
    \/ Loop
    \/ Acquire
    \/ \E u \in Registered : AcquireRendezvous(u)
    \/ Wait
    \/ \E u \in Registered : RunnerGo(u)
    \/ \E u \in Registered : RecvResult(u)
    \/ \E u \in Registered : processResp(u)
    \/ \E u \in Registered : processErrCancel(u)
    \/ \E u \in Registered : processErrSet(u)
    \/ \E u \in Registered : CtxDone(u)
    \/ \E u \in Registered : CloseChClose(u)
    \/ \E u \in Registered : CloseLock(u)
    \/ \E u \in Registered : CloseWait(u)
    \/ \E u \in Registered : CloseChResult(u)
    \/ \E u \in Registered : Release(u)
    \/ \E u \in Registered : WgDone(u)
    \/ \E u \in Registered : \E out \in Outcomes(u) : FuncReturn(u, out)
    \/ \E u \in Registered : FuncPanic(u)
    \/ \E u \in Registered : RecoveryCancel(u)
    \/ \E u \in Registered : WriteAdd(u)
    \/ \E u \in Registered : WriteSelect(u)

SpecResize == InitResize /\ [][NextResize]_vars

\* ------------------------------------------------------------------ safeResultChan on its own
\* A safeResultChan whose write, read and close are called directly, goroutine step
\* by goroutine step.  src.mutex is held by close() from its Lock to its Unlock (the
\* writers' critical section is one step); src.wg counts the writers between Add and Done.
batchVars == <<cfgVars, ctxVars, err, mapResult, mainVars, runVars>>

\* the counter of src.wg
srcWg == Cardinality({w \in Writers : srcWriters[w].pos \in {"added", "sending"}})

\* write(data): the caller only starts the goroutine
SafeWrite(w) ==
    /\ srcWriters[w].pos = "none"
    /\ srcWriters' = [srcWriters EXCEPT ![w] = [pos |-> "spawned", late |-> srcClose # "idle"]]
    /\ UNCHANGED <<batchVars, srcClose, srcChClose, srcChResult, srcReads>>

\* the goroutine of write: src.mutex.Lock(); src.wg.Add(1); src.mutex.Unlock()
WriterAdd(w) ==
    /\ srcWriters[w].pos = "spawned"
    /\ srcClose # "waiting"
    /\ srcWriters' = [srcWriters EXCEPT ![w].pos = "added"]
    /\ UNCHANGED <<batchVars, srcClose, srcChClose, srcChResult, srcReads>>

\* the select of the goroutine taking default whether or not src.chClose is closed
WriterSelectNoCheck(w) ==
    /\ srcWriters[w].pos = "added"
    /\ srcWriters' = [srcWriters EXCEPT ![w].pos = "sending"]
    /\ UNCHANGED <<batchVars, srcClose, srcChClose, srcChResult, srcReads>>

\* select { case <-src.chClose: return (and the deferred src.wg.Done());
\*          default: src.chResult <- data }: with default the goroutine is at the send
WriterSelect(w) ==
    /\ srcWriters[w].pos = "added"
    /\ srcWriters' = [srcWriters EXCEPT ![w].pos = IF srcChClose THEN "done" ELSE "sending"]
    /\ UNCHANGED <<batchVars, srcClose, srcChClose, srcChResult, srcReads>>

\* a goroutine is at src.chResult <- data while src.chResult is closed: the send panics
SendOnClosed == \E w \in Writers : srcWriters[w].pos = "sending" /\ srcChResult

\* <-src.read() receiving the data of writer w, whose send completes (then src.wg.Done())
ReadData(w) ==
    /\ Len(srcReads) < MaxReads
    /\ srcWriters[w].pos = "sending"
    /\ ~srcChResult
    /\ srcWriters' = [srcWriters EXCEPT ![w].pos = "done"]
    /\ srcReads' = Append(srcReads, [data |-> w, close |-> srcClose])
    /\ UNCHANGED <<batchVars, srcClose, srcChClose, srcChResult>>

\* <-src.read() on the closed src.chResult: the zero result{}
ReadClosed ==
    /\ Len(srcReads) < MaxReads
    /\ srcChResult
    /\ srcReads' = Append(srcReads, [data |-> 0, close |-> srcClose])
    /\ UNCHANGED <<batchVars, srcWriters, srcClose, srcChClose, srcChResult>>

\* close(): close(src.chClose)
SafeCloseChClose ==
    /\ srcClose = "idle"
    /\ srcChClose' = TRUE
    /\ srcClose' = "closed"
    /\ UNCHANGED <<batchVars, srcWriters, srcChResult, srcReads>>

\* close(): src.mutex.Lock()
SafeCloseLock ==
    /\ srcClose = "closed"
    /\ srcClose' = "waiting"
    /\ UNCHANGED <<batchVars, srcWriters, srcChClose, srcChResult, srcReads>>

\* close(): src.wg.Wait() returns; src.mutex.Unlock()
SafeCloseWait ==
    /\ srcClose = "waiting"
    /\ srcWg = 0
    /\ srcClose' = "unlocked"
    /\ UNCHANGED <<batchVars, srcWriters, srcChClose, srcChResult, srcReads>>

\* close(): close(src.chResult), and close() returns
SafeCloseChResult ==
    /\ srcClose = "unlocked"
    /\ srcChResult' = TRUE
    /\ srcClose' = "done"
    /\ UNCHANGED <<batchVars, srcWriters, srcChClose, srcReads>>

NextChan ==
    \/ \E w \in Writers : SafeWrite(w)
    \/ \E w \in Writers : WriterAdd(w)
    \/ \E w \in Writers : WriterSelect(w)
    \/ \E w \in Writers : ReadData(w)
    \/ ReadClosed
    \/ SafeCloseChClose
    \/ SafeCloseLock
    \/ SafeCloseWait
    \/ SafeCloseChResult

SpecChan == Init /\ [][NextChan]_vars


\* ------------------------------------------------------------------ vocabulary of the properties
\* the steps of the goroutines of runner u: the goroutine StartAndWait starts for it
\* (with its deferred <-sem, buffered or met by the blocked send of StartAndWait),
\* the goroutine calling r.f and the goroutine of write()
RunnerNext(u) ==
    \/ RunnerGo(u)
    \/ RecvResult(u)
    \/ processResp(u)
    \/ processErrCancel(u)
    \/ processErrSet(u)
    \/ CtxDone(u)
    \/ Timeout(u)
    \/ TimeoutByCtx(u)
    \/ CloseChClose(u)
    \/ CloseLock(u)
    \/ CloseWait(u)
    \/ CloseChResult(u)
    \/ Release(u)
    \/ AcquireRendezvous(u)
    \/ WgDone(u)
    \/ \E out \in Outcomes(u) : FuncReturn(u, out)
    \/ FuncPanic(u)
    \/ RecoveryCancel(u)
    \/ WriteAdd(u)
    \/ WriteSelect(u)

\* the steps of StartAndWait and of the goroutines it starts
BatchNext ==
    \/ Loop
    \/ Acquire
    \/ Wait
    \/ \E u \in Registered : RunnerNext(u)

\* StartAndWait was called and no goroutine of the batch can take another step
AtRest == pc \notin {"config", "crashed"} /\ ~ENABLED BatchNext

Returned == pc = "returned"

\* unit u was launched by StartAndWait
Admitted(u) == wr[u] # "idle"

\* r.f of unit u returned a non-nil value and a nil error
Succeeded(u) == fn[u] = "returned" /\ fres[u].resp = Scalar(u) /\ fres[u].err = NoErr

\* r.f of unit u returned a non-nil error
Failed(u) == fn[u] = "returned" /\ fres[u].err # NoErr

\* the value unit u's function returns is what GetResult gives for its key, or one
\* entry of the slice GetResult gives
Holds(u) ==
    LET g == GetResult(runners[u].id) IN
    \/ g = Scalar(u)
    \/ g.t = "slice" /\ \E n \in 1..Len(g.v) : g.v[n] = u

DistinctKeys == \A u, v \in Registered : u # v => runners[u].id # runners[v].id

\* the text of error e names key id
NamesKey(e, id) == e.kind \in {"timeout", "dup"} /\ e.id = id

\* ------------------------------------------------------------------ C1
\* C1: a batch of units with pairwise distinct keys, none multiple, none with a
\* timeout, the caller's context not cancelled, pool size 0 or positive, whose
\* functions all return a non-nil value and a nil error: StartAndWait does not stay
\* blocked, returns nil, and GetResult(key) is the value that unit's function returned.
C1_Case ==
    /\ pc \notin {"config", "crashed"}
    /\ ~parentDone
    /\ DistinctKeys
    /\ \A u \in Registered : ~runners[u].multiple /\ runners[u].timeout = 0 /\ Succeeded(u)

C1_AllSucceed ==
    C1_Case =>
        /\ AtRest => Returned
        /\ Returned => /\ ret = NoErr
                       /\ \A u \in Registered : GetResult(runners[u].id) = Scalar(u)

C1_Witness ==
    /\ C1_Case
    /\ Returned
    /\ NumRunners = MaxRegister
    /\ runnerPoolSize = 1

\* ------------------------------------------------------------------ C2
\* C2: when StartAndWait has returned, every unit it admitted has finished runner.do()
\* (so nothing writes b.mapResult or b.err afterwards).
C2_ReturnsAfterAllFinished ==
    Returned => \A u \in Registered : wr[u] \in {"idle", "done"}

\* ------------------------------------------------------------------ C3
\* C3: once one unit's error is recorded in b.err, no error reported later by another
\* unit replaces it (with cancel-on-error enabled as well as disabled), so that
\* StartAndWait returns the first error recorded.
C3_FirstErrorWins == [][err # NoErr /\ err' # err => err'.unit = err.unit]_vars

\* ------------------------------------------------------------------ C4
\* C4: with cancel-on-error enabled and a bounded pool, once a unit's error has
\* cancelled the batch context, no unit that was not yet launched is launched.
C4_NoAdmissionAfterCancel ==
    [][cancelOnError /\ runnerPoolSize > 0 /\ cancelled /\ err.kind = "func"
          => \A u \in Registered : ~Admitted(u) => ~Admitted(u)']_vars

\* ------------------------------------------------------------------ C5
\* the case of C5: CancelOnError(false), the caller's context not cancelled, no unit
\* with a timeout, no function panicked, at least one function returned an error
C5_Case ==
    /\ pc \notin {"config", "crashed"}
    /\ ~cancelOnError
    /\ ~parentDone
    /\ \A u \in Registered : runners[u].timeout = 0 /\ fn[u] \notin {"recovering", "panicked"}
    /\ \E u \in Registered : Failed(u)

\* what C5 promises: the batch never cancels its context, and when StartAndWait has
\* returned every registered unit was admitted and its function has returned, every
\* successful unit's value is retrievable, and the returned error is non-nil
C5_Promise ==
    /\ ~cancelled
    /\ Returned =>
          /\ \A u \in Registered : Admitted(u) /\ fn[u] = "returned"
          /\ \A u \in Registered : Succeeded(u) => Holds(u)
          /\ ret # NoErr

\* C5 as stated (for any keys): with CancelOnError(false), when functions return errors
\* (no panic, no timeout, parent not cancelled), the context is never cancelled, every
\* registered unit is admitted and runs to completion, every successful unit's value is
\* retrievable and StartAndWait returns a non-nil error.
C5_Original == C5_Case => C5_Promise

\* a key used by a unit that is not multiple is used by no other unit
NoSharedScalarKey ==
    \A u, v \in Registered :
        (u # v /\ runners[u].id = runners[v].id) => (runners[u].multiple /\ runners[v].multiple)

\* C5 amended: the same, for a batch in which no key of a non-multiple unit is shared
\* with another unit; and StartAndWait does not stay blocked.
C5_NoCancelAllRun == (C5_Case /\ NoSharedScalarKey) => (C5_Promise /\ (AtRest => Returned))

C5_Witness ==
    /\ C5_Case
    /\ NoSharedScalarKey
    /\ Returned
    /\ runnerPoolSize = 1
    /\ Failed(1)
    /\ NumRunners = 2 /\ Succeeded(2) /\ Holds(2)


\* ------------------------------------------------------------------ C6
\* C6: in a batch with pairwise distinct keys, if an admitted unit's function panics,
\* the batch does not stay blocked and StartAndWait returns an error whose text
\* contains "panic".
C6_PanicReported ==
    \A u \in Registered :
        (DistinctKeys /\ fn[u] = "panicked" /\ AtRest) => (Returned /\ ret.kind = "panic")

\* ------------------------------------------------------------------ C7
\* C7: in a batch with pairwise distinct keys, if a unit's time limit elapses before
\* its function has produced a result, the function's late return value is never
\* written to the result map, the batch does not stay blocked and StartAndWait returns
\* the time-limit error naming the unit's key.
C7_TimeLimitReported ==
    \A u \in Registered :
        (DistinctKeys /\ exit[u] = "timeout" /\ fnAtExit[u] = "running") =>
            /\ ~Holds(u)
            /\ AtRest => (Returned /\ ret.kind = "timeout" /\ NamesKey(ret, runners[u].id))


\* ------------------------------------------------------------------ C8
\* unit j is not multiple and an earlier registered unit has its key
DupAt(j) == DupIn(runners, j)

\* what StartAndWait does about the duplicate unit j: it has returned the error naming
\* the key, after cancelling the batch when cancel-on-error is enabled
DupReported(j) ==
    /\ Returned
    /\ ret.kind = "dup"
    /\ NamesKey(ret, runners[j].id)
    /\ cancelOnError => cancelled

\* C8 as stated: whenever some registered unit repeats an earlier key without being
\* multiple, StartAndWait (once it has returned) has reported the first such unit and
\* has admitted neither it nor any unit registered after it.
C8_Original ==
    \A j \in Registered :
        (Returned /\ DupAt(j) /\ \A i \in 1..(j - 1) : ~DupAt(i)) =>
            /\ DupReported(j)
            /\ \A u \in j..NumRunners : ~Admitted(u)

\* the loop of StartAndWait has executed its body for unit j
LoopReached(j) == pc \in {"acquire", "wait", "returned"} /\ (idx > j \/ (idx = j /\ pc # "loop"))

\* C8 amended: if the admission loop reaches a unit that repeats an earlier key without
\* being multiple, StartAndWait cancels the batch (when cancel-on-error is enabled) and
\* returns the error naming the key; such a unit and the units registered after it are
\* never admitted, whether the loop reaches it or not.
C8_DupDetected ==
    \A j \in Registered :
        DupAt(j) =>
            /\ \A u \in j..NumRunners : ~Admitted(u)
            /\ pc # "config" => idx <= j
            /\ LoopReached(j) => DupReported(j)

\* the second of three units is the duplicate: the first was admitted, the error is
\* returned, the third is never admitted
C8_Witness ==
    /\ NumRunners = 3
    /\ DupAt(2)
    /\ LoopReached(2)
    /\ DupReported(2)
    /\ cancelled
    /\ Admitted(1)
    /\ ~Admitted(3)

\* ------------------------------------------------------------------ C9
\* units i < j are both not multiple and registered under the same key
TwoScalars(i, j) ==
    /\ i < j
    /\ runners[i].id = runners[j].id
    /\ ~runners[i].multiple
    /\ ~runners[j].multiple

\* C9 as stated: with two non-multiple units under one key, GetResult(key) stays nil
\* and no unit registered after the duplicate has its result aggregated.
C9_Original ==
    \A i, j \in Registered :
        TwoScalars(i, j) =>
            /\ GetResult(runners[j].id) = NilVal
            /\ \A u \in j..NumRunners : ~Holds(u)

\* C9 amended: with two non-multiple units under one key, the function of the later
\* one and of every unit registered after it is never called and their results are
\* never aggregated; the earlier unit, admitted before the duplicate is met, may still
\* store its result under the key.
C9_DupNotAggregated ==
    \A i, j \in Registered :
        TwoScalars(i, j) =>
            \A u \in j..NumRunners : fn[u] = "none" /\ ~Holds(u)

\* units 1 and 2 share a key, unit 3 has another: unit 1 stored its result, units 2
\* and 3 were never called
C9_Witness ==
    /\ NumRunners = 3
    /\ TwoScalars(1, 2)
    /\ runners[3].id # runners[1].id
    /\ Returned
    /\ ret.kind = "dup"
    /\ GetResult(runners[1].id) = Scalar(1)
    /\ GetResult(runners[3].id) = NilVal
    /\ fn[3] = "none"

\* ------------------------------------------------------------------ C10
UnitsOf(k) == {u \in Registered : runners[u].id = k}

\* the case of C10 for key k: all its units are multiple and have succeeded, and there
\* was no error and no cancellation
C10_Case(k) ==
    /\ UnitsOf(k) # {}
    /\ \A u \in UnitsOf(k) : runners[u].multiple /\ Succeeded(u)
    /\ ~ctxDone
    /\ err = NoErr
    /\ ret = NoErr

\* do has received the successful result of unit u and processResp has run on it
Processed(u) == exit[u] = "result" /\ Succeeded(u) /\ wr[u] # "recv"

\* C10: for units under one key that are all multiple, GetResult(key) is at every
\* moment nil or a slice with exactly one entry per unit whose successful result has
\* been processed (each value once, none lost under any interleaving of the appends);
\* when all of them succeed, with no error and no cancellation, GetResult(key) after
\* StartAndWait has exactly one entry per unit.
C10_OneEntryPerUnit ==
    \A k \in Keys :
        (UnitsOf(k) # {} /\ \A u \in UnitsOf(k) : runners[u].multiple) =>
            LET g == GetResult(k)
                P == {u \in UnitsOf(k) : Processed(u)} IN
            /\ P = {} => g = NilVal
            /\ P # {} => /\ g.t = "slice"
                         /\ Len(g.v) = Cardinality(P)
                         /\ \A u \in P : Cardinality({n \in 1..Len(g.v) : g.v[n] = u}) = 1
            /\ (C10_Case(k) /\ Returned) => P = UnitsOf(k)

C10_Witness ==
    /\ C10_Case(1)
    /\ Returned
    /\ Cardinality(UnitsOf(1)) = 2
    /\ GetResult(1).v = <<2, 1>>

\* ------------------------------------------------------------------ C11
\* units i < j share a key, i is not multiple, j is multiple
ScalarThenMultiple(i, j) ==
    /\ i < j
    /\ runners[i].id = runners[j].id
    /\ ~runners[i].multiple
    /\ runners[j].multiple

\* C11: a batch of two units under one key, the first not multiple and the second
\* multiple, no timeout, the caller's context not cancelled, whose functions both
\* return a non-nil value and a nil error: StartAndWait returns the shape-mismatch
\* error ("cannot append result"), whichever unit's result is processed first.
C11_ShapeMismatch ==
    (/\ NumRunners = 2
     /\ ScalarThenMultiple(1, 2)
     /\ \A u \in Registered : runners[u].timeout = 0 /\ Succeeded(u)
     /\ ~parentDone
     /\ Returned) => ret.kind = "shape"

\* ------------------------------------------------------------------ C12
\* the admitted units whose task has not finished: the goroutine was launched, and it
\* has not yet returned from runner.do() and run its deferred release
Unfinished == {u \in Registered : wr[u] \notin {"idle", "wgdone", "done"}}

\* C12: with pool size N > 0, at every moment of StartAndWait the number of slots held
\* in sem equals the number of admitted units whose task has not finished, and that
\* number is at most N (a slot is taken before the launch and given back once, when
\* the task ends by result, error, panic, cancellation or timeout).
C12_SlotsMatchTasks ==
    (pc \notin {"config", "crashed"} /\ runnerPoolSize > 0) =>
        /\ sem = Cardinality(Unfinished)
        /\ Cardinality(Unfinished) <= runnerPoolSize

\* pool size 1: the first unit ended by its time limit and gave its slot back, the
\* second unit was admitted afterwards and holds the slot
C12_Witness ==
    /\ runnerPoolSize = 1
    /\ NumRunners = 2
    /\ exit[1] = "timeout"
    /\ wr[1] = "done"
    /\ wr[2] = "select"
    /\ sem = 1

\* ------------------------------------------------------------------ C13
\* unit u is registered under key k, its function returned a non-nil value and a nil
\* error, and do received that result
WroteUnder(u, k) == u \in UnitsOf(k) /\ Succeeded(u) /\ exit[u] = "result"

\* C13: at every moment, whatever GetResult(k) holds (a value, or the entries of a
\* slice) was returned, with a nil error, by a unit registered under k; a unit whose
\* function returns nil, or any value with an error, writes nothing, so a key none of
\* whose units succeeded yields nil.
C13_OnlySuccessfulValues ==
    \A k \in Keys :
        LET g == GetResult(k) IN
        /\ g.t = "scalar" => WroteUnder(g.v[1], k)
        /\ g.t = "slice" => \A n \in 1..Len(g.v) : WroteUnder(g.v[n], k)
        /\ (\A u \in UnitsOf(k) : ~Succeeded(u)) => g = NilVal

\* unit 1 returned a value with an error, unit 2 returned a nil value, both results
\* were received, and both keys are absent after the run
C13_Witness ==
    /\ NumRunners = 2
    /\ runners[2].id = 2
    /\ fres[1] = [resp |-> Scalar(1), err |-> FuncErr(1)]
    /\ exit[1] = "result"
    /\ fn[2] = "returned" /\ fres[2] = [resp |-> NilVal, err |-> NoErr]
    /\ exit[2] = "result"
    /\ Returned
    /\ GetResult(1) = NilVal
    /\ GetResult(2) = NilVal

\* ------------------------------------------------------------------ C14
\* the case of C14 for unit u: cancel-on-error enabled, the caller's context not
\* cancelled, distinct keys, u has no timeout and its function returned an error; the
\* function of every other unit has not returned (it never returns, never panics)
\* and no other unit's time limit has elapsed
C14_Case(u) ==
    /\ pc \notin {"config", "crashed"}
    /\ cancelOnError
    /\ ~parentDone
    /\ DistinctKeys
    /\ runners[u].timeout = 0
    /\ Failed(u)
    /\ \A v \in Registered \ {u} : fn[v] \in {"none", "running"} /\ exit[v] # "timeout"

\* C14: in that case the batch does not stay blocked waiting for the other functions,
\* and StartAndWait returns the error u's function returned.
C14_ReturnsThatError ==
    \A u \in Registered :
        C14_Case(u) =>
            /\ AtRest => Returned
            /\ Returned => ret = fres[u].err

\* ------------------------------------------------------------------ C15
\* C15: whatever error StartAndWait returns, its text contains the key of the unit
\* that caused it.
C15_ErrorNamesKey ==
    (Returned /\ ret # NoErr) => NamesKey(ret, runners[ret.unit].id)

\* ------------------------------------------------------------------ C16
\* C16: with a pool size n <= 0 StartAndWait does not crash, never waits for a slot,
\* takes no slot, and when the batch is at rest it has returned (successful functions,
\* distinct keys, no timeout, the caller's context not cancelled) with every
\* registered unit admitted.
C16_NonPositivePoolUnbounded ==
    runnerPoolSize <= 0 =>
        /\ pc # "crashed"
        /\ pc # "acquire"
        /\ sem = 0
        /\ (C1_Case /\ AtRest) => (Returned /\ \A u \in Registered : Admitted(u))

\* ------------------------------------------------------------------ C17
\* C17: when another unit's error has cancelled the batch and the wrapper of unit u
\* leaves the select of do, neither having received its result nor because its time
\* limit elapsed, no step of that wrapper writes b.err or b.mapResult (with or without
\* a timeout configured): the error that caused the cancellation is not replaced.
C17_AbandonedWritesNothing ==
    [][\A u \in Registered :
          (/\ cancelled
           /\ err # NoErr
           /\ err.unit # u
           /\ wr'[u] # wr[u]
           /\ exit'[u] \notin {"none", "result", "timeout"}) => (err' = err /\ mapResult' = mapResult)]_vars

\* ------------------------------------------------------------------ C18
\* C18: close() of a runner's safeResultChan always returns: in a batch with pairwise
\* distinct keys, when no goroutine of the batch can take another step, no wrapper is
\* still inside close() (waiting in src.wg.Wait() for a writer that stays blocked in
\* src.chResult <- data).
C18_CloseReturns ==
    (DistinctKeys /\ AtRest) => \A u \in Registered : wr[u] \notin {"closing", "closelock", "closewait", "closeres"}

\* ------------------------------------------------------------------ C19
\* C19: with CancelOnError(false), no timeout configured and the caller's context not
\* cancelled, when a function has panicked and no goroutine of the batch can take
\* another step, every wrapper task has finished, every pool slot is released, and
\* StartAndWait has returned the panic error.
C19_PanicTerminates ==
    (/\ ~cancelOnError
     /\ ~parentDone
     /\ \A u \in Registered : runners[u].timeout = 0
     /\ \E u \in Registered : fn[u] = "panicked"
     /\ AtRest) =>
        /\ \A u \in Registered : wr[u] \in {"idle", "done"}
        /\ sem = 0
        /\ Returned
        /\ ret.kind = "panic"

\* ------------------------------------------------------------------ C20
\* C20: on a safeResultChan, under every interleaving of write, read and close: no
\* goroutine is ever at the send on the closed result channel (no panic); a write
\* issued after close() was called never reaches the send and its data is never
\* read; every read after close() has returned yields the zero result.
C20_WriteAfterClose ==
    /\ ~SendOnClosed
    /\ \A w \in Writers : srcWriters[w].late => srcWriters[w].pos \in {"spawned", "added", "done"}
    /\ \A n \in 1..Len(srcReads) :
          /\ srcReads[n].data # 0 => ~srcWriters[srcReads[n].data].late
          /\ srcReads[n].close = "done" => srcReads[n].data = 0

\* as in TestSafeWriteChan: a first write was read, close() returned, a write issued
\* afterwards has ended without sending and the read after it yielded the zero result
C20_Witness ==
    /\ srcClose = "done"
    /\ \E w \in Writers : srcWriters[w].late /\ srcWriters[w].pos = "done"
    /\ Len(srcReads) = 2
    /\ srcReads[1].data # 0
    /\ srcReads[2] = [data |-> 0, close |-> "done"]

\* ------------------------------------------------------------------ C21
\* C21: with cancel-on-error enabled, whenever StartAndWait has returned a non-nil
\* error, whatever its kind, the batch context has been cancelled.
C21_ErrorCancels ==
    (cancelOnError /\ Returned /\ ret # NoErr) => ctxDone

\* ------------------------------------------------------------------ C22
\* C22: if StartAndWait has returned nil, every registered unit was admitted, its
\* function has returned with a nil error, and every non-nil value it returned is
\* what GetResult gives for its key (or an entry of it), also when the caller's
\* context was cancelled before or during the run.
C22_NilMeansAllDone ==
    (Returned /\ ret = NoErr) =>
        \A u \in Registered :
            /\ Admitted(u)
            /\ fn[u] = "returned"
            /\ fres[u].err = NoErr
            /\ fres[u].resp # NilVal => Holds(u)

\* ------------------------------------------------------------------ C23
\* C23: no step changes the shape of a key that has been written: a stored slice stays
\* a slice and a stored scalar stays a scalar.
C23_ShapeStable ==
    [][\A k \in Keys : mapResult[k] # NilVal => mapResult'[k].t = mapResult[k].t]_vars

\* ------------------------------------------------------------------ C24
\* the units whose function r.f was called and has neither returned nor panicked
Executing == {u \in Registered : fn[u] = "running"}

\* C24: with pool size N > 0, at every moment at most N user functions are executing.
C24_AtMostNFunctions ==
    (pc \notin {"config", "crashed"} /\ runnerPoolSize > 0) =>
        Cardinality(Executing) <= runnerPoolSize

\* ------------------------------------------------------------------ C25
\* C25: with cancel-on-error enabled and pool size 0, once a unit's error has cancelled
\* the batch context, no step launches a unit that was not yet launched, and the
\* function of such a unit is not called.
C25_UnboundedSkipsAfterCancel ==
    [][(cancelOnError /\ runnerPoolSize = 0 /\ cancelled /\ err # NoErr)
          => \A u \in Registered : ~Admitted(u) => (~Admitted(u)' /\ fn'[u] = "none")]_vars

\* ------------------------------------------------------------------ C26
\* the step in which processResp runs on the non-nil, error-free result of the
\* multiple unit u while a scalar is stored under u's key
MultipleWriteOnScalar(u) ==
    /\ wr[u] = "recv"
    /\ wr'[u] # "recv"
    /\ runners[u].multiple
    /\ Succeeded(u)
    /\ mapResult[runners[u].id].t = "scalar"

\* C26: such a write records the shape-mismatch error and leaves the whole result map
\* as it was (the stored scalar is still what GetResult gives, no other key changes).
C26_MismatchLeavesMap ==
    [][\A u \in Registered :
          MultipleWriteOnScalar(u) => (err' = ShapeErr(u) /\ mapResult' = mapResult)]_vars

\* unit 1 stored its scalar, the multiple unit 2 under the same key then had its
\* result received: the error is the shape mismatch and the scalar is still there
C26_Witness ==
    /\ NumRunners = 2
    /\ ScalarThenMultiple(1, 2)
    /\ exit[2] = "result"
    /\ Succeeded(2)
    /\ err = ShapeErr(2)
    /\ GetResult(runners[2].id) = Scalar(1)

\* ------------------------------------------------------------------ C27
\* C27: whatever SetRunnerPoolSize is called with after StartAndWait has begun, the run
\* keeps to the capacity it started with (semCap): started with N > 0, at most N
\* admitted tasks are unfinished; started with 0, StartAndWait never waits for a slot;
\* and a batch of successful functions (distinct keys, no timeout, the caller's context
\* not cancelled) at rest has returned with every slot released.
C27_ResizeHasNoEffect ==
    pc \notin {"config", "crashed"} =>
        /\ semCap > 0 => Cardinality(Unfinished) <= semCap
        /\ semCap = 0 => pc # "acquire"
        /\ (C1_Case /\ AtRest) => (Returned /\ sem = 0)

\* ------------------------------------------------------------------ C28
\* every launched unit has all the units registered before it launched
AdmittedInOrder == \A i, j \in Registered : (i < j /\ Admitted(j)) => Admitted(i)

\* C28: after every step the launched units are an initial part of the registration
\* sequence (a later unit is never launched before an earlier one, for every pool
\* size), and a step that changes b.runners appends one runner to it, launches no unit
\* and starts no goroutine.
C28_RegistrationOrder ==
    [][/\ AdmittedInOrder'
       /\ runners' # runners =>
             /\ Len(runners') = Len(runners) + 1
             /\ SubSeq(runners', 1, Len(runners)) = runners
             /\ \A u \in Units : ~Admitted(u)' /\ fn'[u] = "none"
             /\ UNCHANGED <<mainVars, runVars, err, mapResult>>]_vars

\* pool size 1, two units: the first has finished and the second was launched after it
C28_Witness ==
    /\ runnerPoolSize = 1
    /\ NumRunners = 2
    /\ wr[1] = "done"
    /\ Admitted(2)
    /\ fn[2] = "running"

====
